---- MODULE Spec2Model ----
(***************************************************************************)
(* Live telemetry connection of iracing.rs: the shared region written by   *)
(* the simulator (the producer), Connection::telemetry, the Blocking       *)
(* sampler with its wait on the data-valid event, and the close calls.     *)
(*                                                                         *)
(* The region is modelled by its buffer descriptors (tick per buffer) and  *)
(* the bytes of each buffer.  A byte's value is the tick of the snapshot   *)
(* the producer wrote it for, so a copy is one snapshot exactly when all   *)
(* its bytes are equal.  Time is counted in units of 1/UnitsPerMs ms, so   *)
(* that a Duration need not be a whole number of milliseconds.             *)
(***************************************************************************)
EXTENDS Integers, Sequences, FiniteSets, TLC

\* ------------------------------------------------------------------ bounds
NumBuffers == 2      \* header.buffer_count of the modelled region
BufLen == 2          \* header.buffer_length, in bytes
InitTicks == 1       \* ticks of the region at start are drawn from 0..InitTicks
MaxTick == 6         \* the producer stops after the update with this tick
GateTicks == 2       \* the same, in the specifications of the wait
MaxRestarts == 1     \* restarts of the producer after it terminated
U32Bits == 2         \* width of the model's u32 (wait_time), scaled down
UnitsPerMs == 2      \* time units per millisecond
MaxAttempts == 3     \* the retry bound of buffer selection (spec 4.3: "e.g., 3")
MaxVars == 2         \* variable_count of the region's header is in 1..MaxVars
MaxFileLen == 6      \* length of an .ibt file, in bytes, is in 0..MaxFileLen
MaxSamples == 2      \* sample_count of an .ibt file is in 0..MaxSamples
MaxFirst == 2        \* first_sample_offset of an .ibt file is in 0..MaxFirst
MaxCount == 2        \* count of a variable descriptor is in 1..MaxCount
MaxOffset == 1       \* offset of a variable descriptor is in 0..MaxOffset
MaxFpsInput == 127   \* values passed to Fps::new are in 0..MaxFpsInput
FracBits == 16       \* fraction bits kept by the model's f64 in Fps::to_ms
WordBits == 4        \* width of the model's u16 words (var1, var2, var3), scaled down
MaxArg == 2          \* integer arguments of a broadcast message are 0 .. MaxArg
MaxCloses == 3       \* close calls on one handle value are followed up to this many
RegionLen == 3       \* bytes of the mapped view that hold the session document

Slots == 0 .. (NumBuffers - 1)
ByteIdx == 1 .. BufLen

\* WaitForSingleObject's return values, as Blocking::sample matches them.
WAIT_OBJECT_0 == 0
WAIT_ABANDONED == 128
WAIT_TIMEOUT == 258
WAIT_FAILED == -1     \* 0xFFFFFFFF
WaitCodes == {WAIT_OBJECT_0, WAIT_ABANDONED, WAIT_TIMEOUT, WAIT_FAILED}

U32Max == 2 ^ U32Bits - 1
INFINITE == U32Max    \* the dwMilliseconds value that never times out
\* Durations a caller passes, in time units: zero, less than a millisecond,
\* one millisecond, one and a fraction, the one whose milliseconds are
\* INFINITE, and one whose milliseconds exceed the u32 range.
Timeouts ==
    {0, 1, UnitsPerMs, UnitsPerMs + 1, UnitsPerMs * U32Max, UnitsPerMs * (U32Max + 1)}

VARIABLES
    tick,        \* region header: tick[i] of buffer descriptor i
    data,        \* region: data[i] the bytes of buffer i
    pslot,       \* producer: the slot of its current (or last) update
    ptick,       \* producer: the tick of its current (or last) update
    pstep,       \* producer: writes done in the current update, 0 = between updates
    tickFirst,   \* producer protocol: TRUE tick then bytes, FALSE bytes then tick
    alive,       \* the producer process is running
    restarts,    \* times the producer was restarted
    event,       \* the data-valid event is signaled
    manualReset, \* the named event is a manual-reset event
    blk,         \* a Blocking exists (Connection::blocking returned it)
    bhdr,        \* Blocking.header: the header parsed when it was created
    connClosed,  \* the caller has closed the region
    evClosed,    \* Blocking.event_handle has been closed
    op,          \* reader: the call in progress, "telemetry" or "sample"
    rpc,         \* reader: position of the call in progress
    tmo,         \* reader: the timeout passed to sample, in time units
    wt,          \* reader: wait_time, whole milliseconds
    elapsed,     \* reader: time units spent in the wait
    wcode,       \* reader: <<code>> WaitForSingleObject returned in this call
    hdr,         \* reader: the header (ticks) buffer selection works from
    chosen,      \* reader: the buffer descriptor picked in step 1
    buf,         \* reader: the owned copy, filled byte by byte
    attempt,     \* reader: copy attempts of this call, counted from 1
    out,         \* reader: the result of the call that has just returned
    interleaved, \* the producer wrote to the region since selection started
    tickHit,     \* the producer changed the chosen buffer's tick in this attempt
    hits,        \* attempts of this call in which it did
    released,    \* a wait of the Blocking has returned WAIT_OBJECT_0
    sigSince,    \* the producer signaled since the last such return
    wake,        \* how the last such return relates to the one before
    abandoned,   \* a wait of the Blocking has returned WAIT_ABANDONED
    prevTick,    \* tick of the Blocking's previous Sample, -1 before the first
    status,      \* region header: status bit 0, the producer is connected
    nvars,       \* region header: variable_count, the variable table's pair
    bstatus,     \* Blocking.header: the status bit parsed when it was created
    bnvars,      \* Blocking.header: variable_count parsed when it was created
    hnvars,      \* reader: variable_count of the header selection works from
    sio,         \* region header: session_info_offset
    sil,         \* region header: session_info_length
    mem,         \* region: mem[a] the byte at address a of the mapped view
    ibt,         \* the IBT handle: "none", "open" or "closed"
    disk,        \* the mapped .ibt file: its length and its sub-header
    smp,         \* a Sample the caller holds: its bytes and its catalog
    fps,         \* the Fps value the caller holds, <<>> when none
    closes       \* CloseHandle calls issued so far, per handle value

regionVars == <<tick, data>>
prodVars == <<pslot, ptick, pstep, tickFirst, alive, restarts>>
eventVars == <<event, manualReset>>
handleVars == <<blk, bhdr, connClosed, evClosed>>
waitVars == <<tmo, wt, elapsed, wcode>>
selVars == <<hdr, chosen, buf, attempt, interleaved, tickHit, hits>>
histVars == <<released, sigSince, wake, abandoned, prevTick>>
hdrVars == <<status, nvars, bstatus, bnvars, hnvars>>
sessVars == <<sio, sil, mem>>
auxVars == <<sessVars, ibt, disk, smp, fps, closes>>
vars == <<regionVars, prodVars, eventVars, handleVars, op, rpc, out, waitVars,
          selVars, histVars, hdrVars, auxVars>>

\* ----------------------------------------------------------------- helpers
Max(S) == CHOOSE x \in S : \A y \in S : y <= x

NoOut == [op |-> "none"]

Addrs == 0 .. (RegionLen - 1)

NoDisk == [len |-> 0, count |-> 0, first |-> 0, stride |-> 0]

NoSample == [bytes |-> <<>>, cat |-> <<>>]

NoCloses == [region |-> 0, event |-> 0]

NoHeader == [i \in Slots |-> 0]

\* Header::parse: the buffer descriptors as they are in the region now.
ParseHeader == tick

\* The status bit and the variable table's pair of the same parse.
ParseStatus == status

ParseVars == nvars

\* Spec 4.3 step 1: the descriptor with the greatest tick (the first of them).
latest_buffer(h) ==
    CHOOSE i \in Slots : /\ \A j \in Slots : h[j] <= h[i]
                         /\ \A j \in Slots : (j < i) => (h[j] < h[i])

\* ---------------------------------------------------------------- producer
\* The k-th write (k in 1..BufLen+1) of one buffer update.
WritesTick(k) == IF tickFirst THEN k = 1 ELSE k = BufLen + 1
ByteOfWrite(k) == IF tickFirst THEN k - 1 ELSE k

ProducerWriteTo(cap) ==
    /\ alive
    /\ pstep <= BufLen
    /\ (pstep = 0) => (ptick < cap)
    /\ LET s == IF pstep = 0 THEN (pslot + 1) % NumBuffers ELSE pslot
           t == IF pstep = 0 THEN ptick + 1 ELSE ptick
           k == pstep + 1
       IN /\ pslot' = s
          /\ ptick' = t
          /\ pstep' = k
          /\ IF WritesTick(k)
               THEN /\ tick' = [tick EXCEPT ![s] = t]
                    /\ data' = data
               ELSE /\ data' = [data EXCEPT ![s][ByteOfWrite(k)] = t]
                    /\ tick' = tick
          /\ tickHit' = (tickHit \/ (rpc \in {"copy", "check"} /\ WritesTick(k) /\ s = chosen))
    /\ interleaved' = (interleaved \/ rpc \in {"copy", "check", "done"})
    /\ UNCHANGED <<tickFirst, alive, restarts, eventVars, handleVars, op, rpc, out,
                   waitVars, hdr, chosen, buf, attempt, hits, histVars>>
    /\ UNCHANGED <<hdrVars, auxVars>>

ProducerWrite == ProducerWriteTo(MaxTick)

ProducerWriteGate == ProducerWriteTo(GateTicks)

\* The producer raises the event when it has finished writing a buffer.
ProducerSignal ==
    /\ alive
    /\ pstep = BufLen + 1
    /\ pstep' = 0
    /\ event' = TRUE
    /\ sigSince' = TRUE
    /\ UNCHANGED <<regionVars, pslot, ptick, tickFirst, alive, restarts, manualReset,
                   handleVars, op, rpc, out, waitVars, selVars, released, wake,
                   abandoned, prevTick>>
    /\ UNCHANGED <<hdrVars, auxVars>>

ProducerTerminate ==
    /\ alive
    /\ alive' = FALSE
    /\ UNCHANGED <<regionVars, pslot, ptick, pstep, tickFirst, restarts, eventVars,
                   handleVars, op, rpc, out, waitVars, selVars, histVars>>
    /\ UNCHANGED <<hdrVars, auxVars>>

ProducerRestart ==
    /\ ~alive
    /\ restarts < MaxRestarts
    /\ alive' = TRUE
    /\ restarts' = restarts + 1
    /\ pstep' = 0
    /\ UNCHANGED <<regionVars, pslot, ptick, tickFirst, eventVars, handleVars, op, rpc,
                   out, waitVars, selVars, histVars>>
    /\ UNCHANGED <<hdrVars, auxVars>>

\* The producer sets or clears bit 0 of the header's status.
ProducerSetStatus ==
    /\ alive
    /\ status' = ~status
    /\ UNCHANGED <<regionVars, prodVars, eventVars, handleVars, op, rpc, out, waitVars,
                   selVars, histVars, nvars, bstatus, bnvars, hnvars, auxVars>>

\* The producer comes back with another variable table: the header's
\* (variable_header_offset, variable_count) pair changes.
ProducerRestartSchema ==
    /\ ~alive
    /\ restarts < MaxRestarts
    /\ alive' = TRUE
    /\ restarts' = restarts + 1
    /\ pstep' = 0
    /\ nvars' = (nvars % MaxVars) + 1
    /\ interleaved' = (interleaved \/ rpc \in {"copy", "check", "done"})
    /\ UNCHANGED <<regionVars, pslot, ptick, tickFirst, eventVars, handleVars, op, rpc,
                   out, waitVars, hdr, chosen, buf, attempt, tickHit, hits, histVars,
                   status, bstatus, bnvars, hnvars, auxVars>>

\* -------------------------------------------------------------- Connection
\* Connection::is_connected: the status bit of a header parsed at the call.
ConnectionStatus == ParseStatus

ConnectionIsConnected ==
    /\ rpc = "idle"
    /\ op' = "is_connected"
    /\ rpc' = "done"
    /\ out' = [op |-> "is_connected", on |-> "Connection", res |-> "ok",
               val |-> ConnectionStatus, now |-> status]
    /\ UNCHANGED <<regionVars, prodVars, eventVars, handleVars, waitVars, selVars,
                   histVars, hdrVars, auxVars>>

\* Blocking::is_connected: the status bit of the header kept in the Blocking.
BlockingStatus == bstatus

BlockingIsConnected ==
    /\ rpc = "idle"
    /\ blk
    /\ op' = "is_connected"
    /\ rpc' = "done"
    /\ out' = [op |-> "is_connected", on |-> "Blocking", res |-> "ok",
               val |-> BlockingStatus, now |-> status]
    /\ UNCHANGED <<regionVars, prodVars, eventVars, handleVars, waitVars, selVars,
                   histVars, hdrVars, auxVars>>

\* Connection::blocking and Blocking::new: the header is parsed here and kept.
ConnectionBlocking ==
    /\ rpc = "idle"
    /\ ~blk
    /\ blk' = TRUE
    /\ bhdr' = ParseHeader
    /\ UNCHANGED <<regionVars, prodVars, eventVars, connClosed, evClosed, op, rpc, out,
                   waitVars, selVars, histVars>>
    /\ bstatus' = ParseStatus
    /\ bnvars' = ParseVars
    /\ UNCHANGED <<status, nvars, hnvars, auxVars>>

\* Connection::close: CloseHandle on the region; no field of Connection changes.
ConnectionClose ==
    /\ rpc = "idle"
    /\ ~connClosed
    /\ connClosed' = TRUE
    /\ closes' = [closes EXCEPT !.region = @ + 1]
    /\ UNCHANGED <<regionVars, prodVars, eventVars, blk, bhdr, evClosed, op, rpc, out,
                   waitVars, selVars, histVars>>
    /\ UNCHANGED <<hdrVars, sessVars, ibt, disk, smp, fps>>

\* Connection::close once more: nothing records the first call, so CloseHandle
\* is issued again on the same value.
ConnectionCloseAgain ==
    /\ rpc = "idle"
    /\ connClosed
    /\ closes.region < MaxCloses
    /\ closes' = [closes EXCEPT !.region = @ + 1]
    /\ UNCHANGED <<regionVars, prodVars, eventVars, handleVars, op, rpc, out, waitVars,
                   selVars, histVars, hdrVars, sessVars, ibt, disk, smp, fps>>

\* Blocking::close: CloseHandle on the event handle, then on the region.  A
\* second call fails at the first CloseHandle and changes nothing.
BlockingClose ==
    /\ rpc = "idle"
    /\ blk
    /\ ~evClosed
    /\ evClosed' = TRUE
    /\ connClosed' = TRUE
    /\ closes' = [region |-> closes.region + 1, event |-> closes.event + 1]
    /\ UNCHANGED <<regionVars, prodVars, eventVars, blk, bhdr, op, rpc, out,
                   waitVars, selVars, histVars>>
    /\ UNCHANGED <<hdrVars, sessVars, ibt, disk, smp, fps>>

\* Blocking::close once more: event_handle is never nulled, so CloseHandle is
\* issued on it again; it fails and the call returns before the region's.
BlockingCloseAgain ==
    /\ rpc = "idle"
    /\ blk
    /\ evClosed
    /\ closes.event < MaxCloses
    /\ closes' = [closes EXCEPT !.event = @ + 1]
    /\ UNCHANGED <<regionVars, prodVars, eventVars, handleVars, op, rpc, out, waitVars,
                   selVars, histVars, hdrVars, sessVars, ibt, disk, smp, fps>>

\* Connection::telemetry: parse the header of the region, then select.
TelemetryHeaderKept == bhdr

TelemetryHeader == ParseHeader

ConnectionTelemetry ==
    /\ rpc = "idle"
    /\ op' = "telemetry"
    /\ hdr' = TelemetryHeader
    /\ chosen' = latest_buffer(hdr')
    /\ attempt' = 1
    /\ buf' = <<>>
    /\ rpc' = "copy"
    /\ out' = NoOut
    /\ interleaved' = FALSE
    /\ tickHit' = FALSE
    /\ hits' = 0
    /\ wcode' = <<>>
    /\ UNCHANGED <<regionVars, prodVars, eventVars, handleVars, tmo, wt, elapsed,
                   histVars>>
    /\ hnvars' = ParseVars
    /\ UNCHANGED <<status, nvars, bstatus, bnvars, auxVars>>

\* ------------------------------------------------------------ session_info
\* Byte values a session document is made of: ':', DEL, and high-bit bytes.
DocBytes == {58, 127, 128, 233, 255}

\* String::from_utf8_lossy on one byte: a high-bit byte alone is not UTF-8
\* and becomes U+FFFD (EF BF BD).
Utf8LossyOfByte(b) == IF b < 128 THEN <<b>> ELSE <<239, 191, 189>>

\* decode_latin1 on one byte: the UTF-8 encoding of the code point b.
Latin1OfByte(b) == IF b < 128 THEN <<b>> ELSE <<192 + (b \div 64), 128 + (b % 64)>>

RECURSIVE decode_latin1(_)
decode_latin1(bytes) ==
    IF bytes = <<>> THEN <<>>
    ELSE Latin1OfByte(Head(bytes)) \o decode_latin1(Tail(bytes))

\* The code points of a str, read from its UTF-8 bytes.
RECURSIVE Chars(_)
Chars(utf8) ==
    IF utf8 = <<>> THEN <<>>
    ELSE IF utf8[1] < 128 THEN <<utf8[1]>> \o Chars(Tail(utf8))
    ELSE IF utf8[1] < 224
           THEN <<(utf8[1] - 192) * 64 + (utf8[2] - 128)>> \o Chars(SubSeq(utf8, 3, Len(utf8)))
    ELSE <<(utf8[1] - 224) * 4096 + (utf8[2] - 128) * 64 + (utf8[3] - 128)>>
             \o Chars(SubSeq(utf8, 4, Len(utf8)))

\* from_raw_parts(start, size): the addresses the slice covers.
SliceAddrs == sio .. (sio + sil - 1)

\* A session_info that ends the document with a NUL written into the view.
SessionInfoTerminatedInPlace ==
    /\ rpc = "idle"
    /\ sil > 0 /\ sio + sil <= RegionLen
    /\ op' = "session_info"
    /\ rpc' = "done"
    /\ mem' = [mem EXCEPT ![sio + sil - 1] = 0]
    /\ out' = [op |-> "session_info", res |-> "invalid_document", lo |-> sio,
               hi |-> sio + sil, data |-> <<>>, text |-> <<>>]
    /\ UNCHANGED <<regionVars, prodVars, eventVars, handleVars, waitVars, selVars,
                   histVars, hdrVars, sio, sil, ibt, disk, smp, fps, closes>>

\* Connection::session_info.  The slice is taken without a check against the
\* view's length: the bytes read beyond the view are whatever lies there, or
\* the read faults.  yaml_from accepts or rejects the text.
ConnectionSessionInfo ==
    /\ rpc = "idle"
    /\ op' = "session_info"
    /\ \/ \E beyond \in [SliceAddrs \ Addrs -> DocBytes], parsed \in BOOLEAN :
            LET slice == [k \in 1 .. sil |->
                            IF (sio + k - 1) \in Addrs THEN mem[sio + k - 1]
                            ELSE beyond[sio + k - 1]]
                content == decode_latin1(slice)
            IN /\ rpc' = "done"
               /\ out' = [op |-> "session_info",
                          res |-> IF parsed THEN "ok" ELSE "invalid_document",
                          lo |-> sio, hi |-> sio + sil, data |-> slice,
                          text |-> Chars(content)]
       \/ /\ SliceAddrs \ Addrs # {}
          /\ rpc' = "fault"
          /\ out' = [op |-> "session_info", res |-> "fault", lo |-> sio, hi |-> sio + sil,
                     data |-> <<>>, text |-> <<>>]
    /\ UNCHANGED <<regionVars, prodVars, eventVars, handleVars, waitVars, selVars,
                   histVars, hdrVars, auxVars>>

\* --------------------------------------------------------------------- IBT
\* The .ibt files a path can name: every length and every sub-header, the
\* stride being the buffer length or one more.  Byte o of a file is o.
DiskFiles ==
    [len : 0 .. MaxFileLen, count : 0 .. MaxSamples, first : 0 .. MaxFirst,
     stride : {BufLen, BufLen + 1}]

FileByte(o) == o

\* IBT::open on a path that names one of files: map the file read-only, or
\* fail as the OS call failed.
IBTOpenOf(files) ==
    /\ rpc = "idle"
    /\ ibt = "none"
    /\ op' = "ibt_open"
    /\ rpc' = "done"
    /\ \/ \E f \in files :
            /\ ibt' = "open"
            /\ disk' = f
            /\ out' = [op |-> "ibt_open", res |-> "ok"]
       \/ /\ out' = [op |-> "ibt_open", res |-> "oserror"]
          /\ UNCHANGED <<ibt, disk>>
    /\ UNCHANGED <<regionVars, prodVars, eventVars, handleVars, waitVars, selVars,
                   histVars, hdrVars, sessVars, smp, fps, closes>>

IBTOpen == IBTOpenOf(DiskFiles)

\* A file of two records that holds all of both.
WholeFile == [len |-> 2 * BufLen, count |-> 2, first |-> 0, stride |-> BufLen]

IBTOpenWhole == IBTOpenOf({WholeFile})

\* IBT::header and IBT::sub_header: parse at the view's start, always Ok.
IBTHeader ==
    /\ rpc = "idle"
    /\ ibt # "none"
    /\ op' = "ibt_header"
    /\ rpc' = "done"
    /\ out' = [op |-> "ibt_header", res |-> "ok"]
    /\ UNCHANGED <<regionVars, prodVars, eventVars, handleVars, waitVars, selVars,
                   histVars, hdrVars, auxVars>>

IBTSubHeader ==
    /\ rpc = "idle"
    /\ ibt # "none"
    /\ op' = "ibt_sub_header"
    /\ rpc' = "done"
    /\ out' = [op |-> "ibt_sub_header", res |-> "ok", count |-> disk.count,
               first |-> disk.first, stride |-> disk.stride]
    /\ UNCHANGED <<regionVars, prodVars, eventVars, handleVars, waitVars, selVars,
                   histVars, hdrVars, auxVars>>

\* IBT::close: CloseHandle on the view; no field of IBT changes.
IBTClose ==
    /\ rpc = "idle"
    /\ ibt = "open"
    /\ ibt' = "closed"
    /\ UNCHANGED <<regionVars, prodVars, eventVars, handleVars, op, rpc, out, waitVars,
                   selVars, histVars, hdrVars, sessVars, disk, smp, fps, closes>>

\* DiskFormatReader.sample_at (spec 4.7): the index is validated against
\* sample_count, then the record at first_sample_offset + index * sample_stride
\* is copied if the file holds all of it.
IndexInRangeInclusive(f, index) == 0 <= index /\ index <= f.count

IndexInRange(f, index) == 0 <= index /\ index < f.count

SampleOffset(f, index) == f.first + index * f.stride

sample_at(f, index) ==
    IF ~IndexInRange(f, index)
      THEN [op |-> "sample_at", res |-> "IndexOutOfRange", index |-> index]
    ELSE IF SampleOffset(f, index) + BufLen > f.len
      THEN [op |-> "sample_at", res |-> "TruncatedFile", index |-> index]
    ELSE [op |-> "sample_at", res |-> "ok", index |-> index,
          off |-> SampleOffset(f, index),
          bytes |-> [k \in ByteIdx |-> FileByte(SampleOffset(f, index) + k - 1)]]

DiskSampleAt ==
    /\ rpc = "idle"
    /\ ibt = "open"
    /\ op' = "sample_at"
    /\ rpc' = "done"
    /\ \E index \in 0 .. (MaxSamples + 1) : out' = sample_at(disk, index)
    /\ UNCHANGED <<regionVars, prodVars, eventVars, handleVars, waitVars, selVars,
                   histVars, hdrVars, auxVars>>

\* ------------------------------------------------------------- Sample::get
TypeTags == {"Char", "Bool", "Int32", "Bitfield32", "Float32", "Float64"}

Width(tag) ==
    CASE tag \in {"Char", "Bool"} -> 1
      [] tag \in {"Int32", "Bitfield32", "Float32"} -> 4
      [] tag = "Float64" -> 8

\* Names a catalog may hold, and the names a caller may ask for.
CatNames == {"SessionTick", "Speed"}

Names == CatNames \cup {"Gear"}

Descriptors == [tag : TypeTags, count : 1 .. MaxCount, offset : 0 .. MaxOffset]

\* A catalog maps each of its names to one descriptor.
Catalogs == UNION {[D -> Descriptors] : D \in SUBSET CatNames}

\* The owned bytes of a Sample, long enough for every descriptor; byte k is k.
SampleBytes == [k \in 1 .. (MaxOffset + 8 * MaxCount) |-> k]

\* The shapes a caller can ask for.
Shapes == [tag : TypeTags, array : BOOLEAN]

ShapeMatchesKind(d, as) == as.tag = d.tag

ShapeMatches(d, as) == as.tag = d.tag /\ as.array = (d.count > 1)

\* Element i of the variable: Width bytes at offset + (i - 1) * Width.
Element(s, d, i) ==
    SubSeq(s.bytes, d.offset + (i - 1) * Width(d.tag) + 1, d.offset + i * Width(d.tag))

get(s, name, as) ==
    IF name \notin DOMAIN s.cat
      THEN [op |-> "get", res |-> "NotFound", name |-> name, as |-> as]
    ELSE IF ~ShapeMatches(s.cat[name], as)
      THEN [op |-> "get", res |-> "TypeMismatch", name |-> name, as |-> as]
    ELSE [op |-> "get", res |-> "ok", name |-> name, as |-> as,
          val |-> [i \in 1 .. s.cat[name].count |-> Element(s, s.cat[name], i)]]

SampleGet ==
    /\ rpc = "idle"
    /\ smp # NoSample
    /\ op' = "get"
    /\ rpc' = "done"
    /\ \E name \in Names, as \in Shapes : out' = get(smp, name, as)
    /\ UNCHANGED <<regionVars, prodVars, eventVars, handleVars, waitVars, selVars,
                   histVars, hdrVars, auxVars>>

\* --------------------------------------------------------------------- Fps
FPS_MIN == 1

FPS_MAX == 60

FpsInputs == 0 .. MaxFpsInput

\* Fps::new's test, as the condition under which it does not panic.
FpsAcceptsNoLowerCheck(value) == ~(value > FPS_MAX)

FpsAccepts(value) == ~(value < FPS_MIN \/ value > FPS_MAX)

\* Fps::new(value), also behind the constants Fps::MIN and Fps::MAX.
FpsNewOf(value) ==
    /\ rpc = "idle"
    /\ op' = "fps_new"
    /\ rpc' = "done"
    /\ IF FpsAccepts(value)
         THEN /\ fps' = <<value>>
              /\ out' = [op |-> "fps_new", res |-> "ok", value |-> value]
         ELSE /\ fps' = fps
              /\ out' = [op |-> "fps_new", res |-> "panic", value |-> value]
    /\ UNCHANGED <<regionVars, prodVars, eventVars, handleVars, waitVars, selVars,
                   histVars, hdrVars, sessVars, ibt, disk, smp, closes>>

FpsNew == \E value \in FpsInputs : FpsNewOf(value)

FpsMIN == FpsNewOf(FPS_MIN)

FpsMAX == FpsNewOf(FPS_MAX)

\* n / d in the model's f64: the quotient rounded to the nearest multiple of
\* 2^-FracBits, ties to even; the result is the number of such units.
F64Div(n, d) ==
    LET q == (n * 2 ^ FracBits) \div d
        r == (n * 2 ^ FracBits) % d
    IN IF 2 * r > d \/ (2 * r = d /\ q % 2 = 1) THEN q + 1 ELSE q

\* Fps::to_ms: 1000.0 / self.value as f64.
to_ms(value) == F64Div(1000, value)

\* f64::round and f64::floor, to whole units.
F64Round(x) == (x + 2 ^ (FracBits - 1)) \div 2 ^ FracBits

F64Floor(x) == x \div 2 ^ FracBits

\* Fps::to_duration, in milliseconds.
to_duration(value) == F64Floor(to_ms(value))

FpsToDuration ==
    /\ rpc = "idle"
    /\ fps # <<>>
    /\ op' = "to_duration"
    /\ rpc' = "done"
    /\ out' = [op |-> "to_duration", res |-> "ok", value |-> fps[1],
               ms |-> to_duration(fps[1])]
    /\ UNCHANGED <<regionVars, prodVars, eventVars, handleVars, waitVars, selVars,
                   histVars, hdrVars, auxVars>>

\* -------------------------------------------------------------- Simulation
\* The text check_status looks for, a character per element.
Running1 == <<"r", "u", "n", "n", "i", "n", "g", ":", "1">>

\* Texts the peer may answer with: a body between a prefix and a suffix.
Bodies ==
    { <<>>, Running1,
      <<"r", "u", "n", "n", "i", "n", "g", ":", "0">>,
      <<"r", "u", "n", "n", "i", "n", "g", ":">>,
      <<"u", "n", "n", "i", "n", "g", ":", "1">>,
      <<"R", "u", "n", "n", "i", "n", "g", ":", "1">>,
      <<"r", "u", "n", "n", "i", "n", "g", ":", " ", "1">>,
      <<"r", "u", "n", "r", "u", "n", "n", "i", "n", "g", ":", "1", "0">> }

Responses == {p \o b \o x : p \in {<<>>, <<"r">>, <<"{">>}, b \in Bodies,
                             x \in {<<>>, <<"1">>, <<"}">>}}

\* str::starts_with and str::contains.
starts_with(hay, needle) ==
    Len(needle) <= Len(hay) /\ SubSeq(hay, 1, Len(needle)) = needle

contains(hay, needle) ==
    \E i \in 1 .. (Len(hay) - Len(needle) + 1) : SubSeq(hay, i, i + Len(needle) - 1) = needle

\* Simulation::check_status with the outcome of each I/O call: connect, then
\* write_all, then read_to_string, which leaves in response what it has read.
check_status(connected, written, read, response) ==
    IF ~connected THEN FALSE
    ELSE IF ~written THEN FALSE
    ELSE IF ~read THEN FALSE
    ELSE contains(response, Running1)

SimulationCheckStatus ==
    /\ rpc = "idle"
    /\ op' = "check_status"
    /\ rpc' = "done"
    /\ \E connected \in BOOLEAN, written \in BOOLEAN, read \in BOOLEAN, response \in Responses :
           out' = [op |-> "check_status", res |-> "ok",
                   val |-> check_status(connected, written, read, response),
                   connected |-> connected, written |-> connected /\ written,
                   read |-> connected /\ written /\ read,
                   response |-> IF connected /\ written THEN response ELSE <<>>]
    /\ UNCHANGED <<regionVars, prodVars, eventVars, handleVars, waitVars, selVars,
                   histVars, hdrVars, auxVars>>

\* --------------------------------------------------------------- Broadcast
\* BroadcastMessageType: the discriminant of each category.
BroadcastMessageType ==
    [CameraSwitchPosition |-> 0, CameraSwitchNumber |-> 1, CameraSetState |-> 2,
     ReplaySetPlaySpeed |-> 3, ReplaySetPlayPosition |-> 4, ReplaySearch |-> 5,
     ReplaySetState |-> 6, ReloadTextures |-> 7, ChatCommand |-> 8, PitCommand |-> 9,
     TelemetryCommand |-> 10, FFBCommand |-> 11, ReplaySearchSessionTime |-> 12,
     VideoCapture |-> 13]

Categories == {BroadcastMessageType[n] : n \in DOMAIN BroadcastMessageType}

Words == 0 .. (2 ^ WordBits - 1)

\* Width of WPARAM and LPARAM (usize, isize): two words or four.
PtrWidths == {2 * WordBits, 4 * WordBits}

\* An unsigned value of the given width read as isize.
AsSigned(x, bits) == IF x >= 2 ^ (bits - 1) THEN x - 2 ^ bits ELSE x

\* send_message: (broadcast_type as WPARAM) | ((var1 as WPARAM) << 16).
wparam_of(cat, var1, bits) == (cat + var1 * 2 ^ WordBits) % 2 ^ bits

\* The same with the second word shifted by half a word only.
lparam_half_shift(var2, var3, bits) ==
    AsSigned((var2 + var3 * 2 ^ (WordBits \div 2)) % 2 ^ bits, bits)

\* send_message: (var2 as LPARAM) | ((var3 as LPARAM) << 16).
lparam_of(var2, var3, bits) == AsSigned((var2 + var3 * 2 ^ WordBits) % 2 ^ bits, bits)

\* The packing of send_message applied to a tuple to_message may return.
PackWords ==
    /\ rpc = "idle"
    /\ op' = "pack"
    /\ rpc' = "done"
    /\ \E cat \in Categories, var1 \in Words, var2 \in Words, var3 \in Words,
          bits \in PtrWidths :
           out' = [op |-> "pack", res |-> "ok", cat |-> cat, var1 |-> var1,
                   var2 |-> var2, var3 |-> var3, bits |-> bits,
                   wparam |-> wparam_of(cat, var1, bits),
                   lparam |-> lparam_of(var2, var3, bits)]
    /\ UNCHANGED <<regionVars, prodVars, eventVars, handleVars, waitVars, selVars,
                   histVars, hdrVars, auxVars>>

\* ----------------------------------------------------------- pad_car_number
Digits == 0 .. 9

\* Car numbers as the strings a caller passes: one to three decimal digits.
CarNumbers ==
    {<<a>> : a \in Digits} \cup {<<a, b>> : a \in Digits, b \in Digits}
      \cup {<<a, b, c>> : a \in Digits, b \in Digits, c \in Digits}

\* The loop of pad_car_number: the number of leading b'0' bytes.
RECURSIVE leading_zeros(_)
leading_zeros(s) ==
    IF s = <<>> \/ Head(s) # 0 THEN 0 ELSE 1 + leading_zeros(Tail(s))

\* s.parse::<u16>() on a string of decimal digits.
RECURSIVE parse(_)
parse(s) ==
    IF s = <<>> THEN 0 ELSE 10 * parse(SubSeq(s, 1, Len(s) - 1)) + s[Len(s)]

\* The same without the decrement for a string made of zeros only.
pad_car_number_no_decrement(s) ==
    LET zeros == leading_zeros(s)
        num == parse(s)
        num_place == IF num > 99 THEN 3 ELSE IF num > 9 THEN 2 ELSE 1
    IN  IF zeros > 0 THEN num + 1000 * (num_place + zeros) ELSE num

pad_car_number(s) ==
    LET len == Len(s)
        counted == leading_zeros(s)
        zeros == IF counted > 0 /\ counted = len THEN counted - 1 ELSE counted
        num == parse(s)
        num_place == IF num > 99 THEN 3 ELSE IF num > 9 THEN 2 ELSE 1
    IN  IF zeros > 0 THEN num + 1000 * (num_place + zeros) ELSE num

\* A call of pad_car_number, as CameraSwitchNumber makes it.
PadCarNumber ==
    /\ rpc = "idle"
    /\ op' = "pad_car_number"
    /\ rpc' = "done"
    /\ \E s \in CarNumbers :
           out' = [op |-> "pad_car_number", res |-> "ok", s |-> s,
                   code |-> pad_car_number(s)]
    /\ UNCHANGED <<regionVars, prodVars, eventVars, handleVars, waitVars, selVars,
                   histVars, hdrVars, auxVars>>

\* --------------------------------------------------------------- to_message
\* Discriminants of the #[repr(u16)] mode enums.
ReplayPositionMode == [Begin |-> 0, Current |-> 1, End |-> 2]

ReplaySearchMode ==
    [ToStart |-> 0, ToEnd |-> 1, PreviousSession |-> 2, NextSession |-> 3,
     PreviousLap |-> 4, NextLap |-> 5, PreviousFrame |-> 6, NextFrame |-> 7,
     PreviousIncident |-> 8, NextIncident |-> 9]

TelemetryCommandMode == [Stop |-> 0, Start |-> 1, Restart |-> 2]

ChatCommandMode == [Macro |-> 0, Begin |-> 1, Reply |-> 2, Cancel |-> 3]

VideoCaptureMode ==
    [ScreenShot |-> 0, StartCapture |-> 1, EndCapture |-> 2, ToggleCapture |-> 3,
     ShowTimer |-> 4, HideTimer |-> 5]

\* PitCommandMode: the variants without and with a u8.
PitPlain ==
    {"Clear", "Tearoff", "ClearTires", "FastRepair", "ClearTearoff",
     "ClearFastRepair", "ClearFuel"}

PitValued == {"Fuel", "LF", "RF", "LR", "RR"}

\* PitCommandMode::encode: (var1, var2).
encode(mode, args) ==
    CASE mode = "Clear" -> <<0, 0>>
      [] mode = "Tearoff" -> <<1, 0>>
      [] mode = "Fuel" -> <<2, args[1]>>
      [] mode = "LF" -> <<3, args[1]>>
      [] mode = "RF" -> <<4, args[1]>>
      [] mode = "LR" -> <<5, args[1]>>
      [] mode = "RR" -> <<6, args[1]>>
      [] mode = "ClearTires" -> <<7, 0>>
      [] mode = "FastRepair" -> <<8, 0>>
      [] mode = "ClearTearoff" -> <<9, 0>>
      [] mode = "ClearFastRepair" -> <<10, 0>>
      [] mode = "ClearFuel" -> <<11, 0>>

\* Integer arguments (u8, u16, CameraState bits) a caller passes.
IntArgs == 0 .. MaxArg

\* Car numbers a caller passes to CameraSwitchNumber.
CarNumberArgs == {<<1>>, <<0, 1>>, <<0, 0, 1>>}

\* A BroadcastMessage value: its variant, and its mode, bool, integer and
\* string arguments where the variant has them.
Message(variant, mode, flag, args, car) ==
    [variant |-> variant, mode |-> mode, flag |-> flag, args |-> args, car |-> car]

BroadcastMessage ==
    {Message("CameraSwitchPosition", "", FALSE, <<p, g, c>>, <<>>) :
        p \in IntArgs, g \in IntArgs, c \in IntArgs}
    \cup {Message("CameraSwitchNumber", "", FALSE, <<g, c>>, n) :
        g \in IntArgs, c \in IntArgs, n \in CarNumberArgs}
    \cup {Message("CameraSetState", "", FALSE, <<b>>, <<>>) : b \in IntArgs}
    \cup {Message("ReplaySetPlaySpeed", "", f, <<v>>, <<>>) :
        v \in IntArgs, f \in BOOLEAN}
    \cup {Message("ReplaySetPlayPosition", m, FALSE, <<v>>, <<>>) :
        m \in DOMAIN ReplayPositionMode, v \in IntArgs}
    \cup {Message("ReplaySearch", m, FALSE, <<>>, <<>>) : m \in DOMAIN ReplaySearchMode}
    \cup {Message("ReplaySetState", "", FALSE, <<>>, <<>>)}
    \cup {Message("ReloadAllTextures", "", FALSE, <<>>, <<>>)}
    \cup {Message("ReloadTextures", "", FALSE, <<v>>, <<>>) : v \in IntArgs}
    \cup {Message("ChatCommand", m, FALSE, <<>>, <<>>) : m \in DOMAIN ChatCommandMode}
    \cup {Message("ChatCommandMacro", "", FALSE, <<v>>, <<>>) : v \in IntArgs}
    \cup {Message("PitCommand", m, FALSE, <<>>, <<>>) : m \in PitPlain}
    \cup {Message("PitCommand", m, FALSE, <<v>>, <<>>) : m \in PitValued, v \in IntArgs}
    \cup {Message("TelemetryCommand", m, FALSE, <<>>, <<>>) :
        m \in DOMAIN TelemetryCommandMode}
    \cup {Message("FFBCommand", "", FALSE, <<v>>, <<>>) : v \in IntArgs}
    \cup {Message("ReplaySearchSessionTime", "", FALSE, <<n, t>>, <<>>) :
        n \in IntArgs, t \in IntArgs}
    \cup {Message("VideoCapture", m, FALSE, <<>>, <<>>) : m \in DOMAIN VideoCaptureMode}

\* BroadcastMessage::to_message: (category, var1, var2, var3).
to_message(m) ==
    LET T == BroadcastMessageType
        v == m.variant
    IN  CASE v = "CameraSwitchPosition" ->
               <<T.CameraSwitchPosition, m.args[1], m.args[2], m.args[3]>>
          [] v = "CameraSwitchNumber" ->
               <<T.CameraSwitchNumber, pad_car_number(m.car), m.args[1], m.args[2]>>
          [] v = "CameraSetState" -> <<T.CameraSetState, m.args[1], 0, 0>>
          [] v = "ReplaySetPlaySpeed" ->
               <<T.ReplaySetPlaySpeed, m.args[1], IF m.flag THEN 1 ELSE 0, 0>>
          [] v = "ReplaySetPlayPosition" ->
               <<T.ReplaySetPlayPosition, ReplayPositionMode[m.mode], m.args[1], 0>>
          [] v = "ReplaySearch" -> <<T.ReplaySearch, ReplaySearchMode[m.mode], 0, 0>>
          [] v = "ReplaySetState" -> <<T.ReplaySetState, 0, 0, 0>>
          [] v = "ReloadAllTextures" -> <<T.ReloadTextures, 0, 0, 0>>
          [] v = "ReloadTextures" -> <<T.ReloadTextures, m.args[1], 0, 0>>
          [] v = "ChatCommand" -> <<T.ChatCommand, ChatCommandMode[m.mode], 0, 0>>
          [] v = "ChatCommandMacro" ->
               <<T.ChatCommand, ChatCommandMode.Macro, m.args[1], 0>>
          [] v = "PitCommand" ->
               <<T.PitCommand, encode(m.mode, m.args)[1], encode(m.mode, m.args)[2], 0>>
          [] v = "TelemetryCommand" ->
               <<T.TelemetryCommand, TelemetryCommandMode[m.mode], 0, 0>>
          [] v = "FFBCommand" -> <<T.FFBCommand, 0, 0, 0>>
          [] v = "ReplaySearchSessionTime" ->
               <<T.ReplaySearchSessionTime, m.args[1], m.args[2], 0>>
          [] v = "VideoCapture" -> <<T.VideoCapture, VideoCaptureMode[m.mode], 0, 0>>

\* Two messages a caller builds and what to_message makes of each.
ToMessage ==
    /\ rpc = "idle"
    /\ op' = "to_message"
    /\ rpc' = "done"
    /\ \E m1 \in BroadcastMessage, m2 \in BroadcastMessage :
           out' = [op |-> "to_message", res |-> "ok", m1 |-> m1, m2 |-> m2,
                   t1 |-> to_message(m1), t2 |-> to_message(m2)]
    /\ UNCHANGED <<regionVars, prodVars, eventVars, handleVars, waitVars, selVars,
                   histVars, hdrVars, auxVars>>


\* ---------------------------------------------------------------- Blocking
\* timeout.as_millis(): whole milliseconds, the rest dropped.
AsMillis(t) == t \div UnitsPerMs

\* Blocking::sample up to the call of WaitForSingleObject.
SampleCall(t) ==
    /\ rpc = "idle"
    /\ blk
    /\ op' = "sample"
    /\ tmo' = t
    /\ wcode' = <<>>
    /\ elapsed' = 0
    /\ IF AsMillis(t) <= U32Max
         THEN /\ wt' = AsMillis(t)
              /\ rpc' = "armed"
              /\ out' = NoOut
         ELSE /\ wt' = 0
              /\ rpc' = "done"
              /\ out' = [op |-> "sample", res |-> "convert"]
    /\ UNCHANGED <<regionVars, prodVars, eventVars, handleVars, selVars, histVars>>
    /\ UNCHANGED <<hdrVars, auxVars>>

\* Time passes while the caller is blocked in the wait.
TimePasses ==
    /\ rpc = "armed"
    /\ ~evClosed
    /\ ~event
    /\ elapsed < UnitsPerMs * wt + (IF wt = INFINITE THEN 1 ELSE 0)
    /\ elapsed' = elapsed + 1
    /\ UNCHANGED <<regionVars, prodVars, eventVars, handleVars, op, rpc, out, tmo, wt,
                   wcode, selVars, histVars>>
    /\ UNCHANGED <<hdrVars, auxVars>>

\* What WaitForSingleObject(event_handle, wait_time) can return now.
WaitOutcomes ==
    IF evClosed THEN {WAIT_FAILED}
    ELSE IF event THEN {WAIT_OBJECT_0}
    ELSE (IF wt # INFINITE /\ elapsed >= UnitsPerMs * wt THEN {WAIT_TIMEOUT} ELSE {})
         \cup (IF ~alive THEN {WAIT_ABANDONED} ELSE {})

\* The match of Blocking::sample on the value returned.
SampleMatchFallThrough(signal) ==
    CASE signal = WAIT_ABANDONED -> "abandoned"
      [] signal = WAIT_FAILED -> "oserror"
      [] signal \in {WAIT_OBJECT_0, WAIT_TIMEOUT} -> "ok"
      [] OTHER -> "unknown"

SampleMatch(signal) ==
    CASE signal = WAIT_ABANDONED -> "abandoned"
      [] signal = WAIT_TIMEOUT -> "timeout"
      [] signal = WAIT_FAILED -> "oserror"
      [] signal = WAIT_OBJECT_0 -> "ok"
      [] OTHER -> "unknown"

WaitReturns ==
    /\ rpc = "armed"
    /\ \E signal \in WaitOutcomes :
        /\ wcode' = <<signal>>
        /\ event' = IF signal = WAIT_OBJECT_0 /\ ~manualReset THEN FALSE ELSE event
        /\ abandoned' = (abandoned \/ signal = WAIT_ABANDONED)
        /\ IF signal = WAIT_OBJECT_0
             THEN /\ released' = TRUE
                  /\ sigSince' = FALSE
                  /\ wake' = IF ~released THEN "first"
                             ELSE IF sigSince THEN "fresh" ELSE "stale"
             ELSE UNCHANGED <<released, sigSince, wake>>
        /\ IF SampleMatch(signal) = "ok"
             THEN /\ rpc' = "signaled"
                  /\ out' = NoOut
             ELSE /\ rpc' = "done"
                  /\ out' = [op |-> "sample", res |-> SampleMatch(signal), ms |-> wt,
                             code |-> signal]
    /\ UNCHANGED <<regionVars, prodVars, manualReset, handleVars, op, tmo, wt, elapsed,
                   selVars, prevTick>>
    /\ UNCHANGED <<hdrVars, auxVars>>

\* ResetEvent(event_handle), then self.header.telemetry(self.origin): selection
\* starts from the header kept in the Blocking.
ResetEventSkipped == event

ResetEventState == FALSE

SampleHeader == bhdr

SampleVars == bnvars

ResetAndSelect ==
    /\ rpc = "signaled"
    /\ event' = ResetEventState
    /\ hdr' = SampleHeader
    /\ chosen' = latest_buffer(hdr')
    /\ attempt' = 1
    /\ buf' = <<>>
    /\ rpc' = "copy"
    /\ interleaved' = FALSE
    /\ tickHit' = FALSE
    /\ hits' = 0
    /\ UNCHANGED <<regionVars, prodVars, manualReset, handleVars, op, out, waitVars,
                   histVars>>
    /\ hnvars' = SampleVars
    /\ UNCHANGED <<status, nvars, bstatus, bnvars, auxVars>>

\* -------------------------------------------------------- Header::telemetry
\* Step 2: copy buffer_length bytes of the chosen buffer, one byte at a time.
CopyByte ==
    /\ rpc = "copy"
    /\ buf' = Append(buf, data[chosen][Len(buf) + 1])
    /\ rpc' = IF Len(buf') = BufLen THEN "check" ELSE "copy"
    /\ UNCHANGED <<regionVars, prodVars, eventVars, handleVars, op, out, waitVars, hdr,
                   chosen, attempt, interleaved, tickHit, hits, histVars>>
    /\ UNCHANGED <<hdrVars, auxVars>>

\* Steps 3 and 4: re-read the header and compare the chosen buffer's tick.
ExhaustedNever(n) == FALSE

ExhaustedLate(n) == n > MaxAttempts

Exhausted(n) == n >= MaxAttempts

\* The tick a Sample is stamped with: that of the header selection worked from.
SampleTickKept == bhdr[chosen]

SampleTick == hdr[chosen]

Sample(stale) ==
    [op |-> op, res |-> "ok", slot |-> chosen, tick |-> SampleTick, bytes |-> buf,
     stale |-> stale, attempts |-> attempt]

CheckTick ==
    /\ rpc = "check"
    /\ LET h2 == ParseHeader
       IN IF h2[chosen] = hdr[chosen]
            THEN /\ out' = Sample(FALSE)
                 /\ rpc' = "done"
                 /\ UNCHANGED <<hdr, chosen, buf, attempt>>
            ELSE IF Exhausted(attempt)
            THEN /\ out' = Sample(TRUE)
                 /\ rpc' = "done"
                 /\ UNCHANGED <<hdr, chosen, buf, attempt>>
            ELSE /\ hdr' = h2
                 /\ chosen' = latest_buffer(h2)
                 /\ attempt' = attempt + 1
                 /\ buf' = <<>>
                 /\ rpc' = "copy"
                 /\ out' = out
    /\ hits' = hits + (IF tickHit THEN 1 ELSE 0)
    /\ tickHit' = FALSE
    /\ UNCHANGED <<regionVars, prodVars, eventVars, handleVars, op, waitVars,
                   interleaved, histVars>>
    /\ hnvars' = (IF hdr' # hdr THEN ParseVars ELSE hnvars)
    /\ UNCHANGED <<status, nvars, bstatus, bnvars, auxVars>>

\* The caller takes the result; the locals of the call are gone.
ReturnWith(last) ==
    /\ rpc = "done"
    /\ rpc' = "idle"
    /\ op' = "none"
    /\ out' = NoOut
    /\ prevTick' = last
    /\ tmo' = 0 /\ wt' = 0 /\ elapsed' = 0 /\ wcode' = <<>>
    /\ hdr' = NoHeader /\ chosen' = 0 /\ buf' = <<>> /\ attempt' = 0
    /\ interleaved' = FALSE /\ tickHit' = FALSE /\ hits' = 0
    /\ wake' = "none"
    /\ UNCHANGED <<regionVars, prodVars, eventVars, handleVars, released, sigSince,
                   abandoned>>
    /\ hnvars' = 0
    /\ UNCHANGED <<status, nvars, bstatus, bnvars, auxVars>>

Return == ReturnWith(prevTick)

\* The same, remembering the tick of the Sample for the next call's check.
ReturnSample ==
    ReturnWith(IF out.op = "sample" /\ out.res = "ok" THEN out.tick ELSE prevTick)

\* ------------------------------------------------------------ specification
\* The state after Connection::new(), and after blocking() when hasBlocking: a
\* region with some ticks, the producer between two updates.
InitState(hasBlocking) ==
    /\ tick \in [Slots -> 0 .. InitTicks]
    /\ data = [i \in Slots |-> [k \in ByteIdx |-> tick[i]]]
    /\ pslot \in Slots
    /\ ptick = Max({tick[i] : i \in Slots})
    /\ pstep = 0
    /\ tickFirst \in BOOLEAN
    /\ alive = TRUE
    /\ restarts = 0
    /\ event = FALSE
    /\ manualReset \in BOOLEAN
    /\ blk = hasBlocking
    /\ bhdr = IF hasBlocking THEN ParseHeader ELSE NoHeader
    /\ connClosed = FALSE
    /\ evClosed = FALSE
    /\ op = "none"
    /\ rpc = "idle"
    /\ out = NoOut
    /\ tmo = 0
    /\ wt = 0
    /\ elapsed = 0
    /\ wcode = <<>>
    /\ hdr = NoHeader
    /\ chosen = 0
    /\ buf = <<>>
    /\ attempt = 0
    /\ interleaved = FALSE
    /\ tickHit = FALSE
    /\ hits = 0
    /\ released = FALSE
    /\ sigSince = FALSE
    /\ wake = "none"
    /\ abandoned = FALSE
    /\ prevTick = -1
    /\ status = TRUE
    /\ nvars = 1
    /\ bstatus = (hasBlocking /\ ParseStatus)
    /\ bnvars = IF hasBlocking THEN ParseVars ELSE 0
    /\ hnvars = 0

\* No session document in the region, no .ibt file opened, nothing held.
InitAux ==
    /\ sio = 0
    /\ sil = 0
    /\ mem = [a \in Addrs |-> 0]
    /\ ibt = "none"
    /\ disk = NoDisk
    /\ smp = NoSample
    /\ fps = <<>>
    /\ closes = NoCloses

Init == InitState(FALSE) /\ InitAux

\* A region whose buffers have not been written yet.
Fresh == tick = NoHeader /\ pslot = NumBuffers - 1

InitFresh == InitState(FALSE) /\ InitAux /\ Fresh

\* The same after Connection::new()?.blocking()?.
InitGate == InitState(TRUE) /\ InitAux /\ Fresh

\* The region, its producer and Connection::telemetry.
NextSelect ==
    \/ ProducerWrite
    \/ ProducerSignal
    \/ ConnectionTelemetry
    \/ CopyByte
    \/ CheckTick
    \/ Return

SpecSelect == Init /\ [][NextSelect]_vars

\* The reader's thread keeps running; nothing is assumed of the producer.
FairSelect == SpecSelect /\ WF_vars(CopyByte) /\ WF_vars(CheckTick)

\* The wait of Blocking::sample: a producer that signals, terminates and
\* restarts, every timeout, and the close of the Blocking.
NextGate ==
    \/ ProducerWriteGate
    \/ ProducerSignal
    \/ ProducerTerminate
    \/ ProducerRestart
    \/ BlockingClose
    \/ \E t \in Timeouts : SampleCall(t)
    \/ TimePasses
    \/ WaitReturns
    \/ ResetAndSelect
    \/ CopyByte
    \/ CheckTick
    \/ Return

SpecGate == InitGate /\ [][NextGate]_vars

\* Successive samples of one Blocking against a running producer.
NextOrder ==
    \/ ProducerWrite
    \/ ProducerSignal
    \/ ConnectionBlocking
    \/ \E t \in {UnitsPerMs} : SampleCall(t)
    \/ TimePasses
    \/ WaitReturns
    \/ ResetAndSelect
    \/ CopyByte
    \/ CheckTick
    \/ ReturnSample

SpecOrder == InitFresh /\ [][NextOrder]_vars

\* Closing the region and using the handles afterwards.
NextClose ==
    \/ ProducerWriteGate
    \/ ProducerSignal
    \/ ConnectionBlocking
    \/ ConnectionClose
    \/ BlockingClose
    \/ ConnectionTelemetry
    \/ \E t \in {UnitsPerMs} : SampleCall(t)
    \/ TimePasses
    \/ WaitReturns
    \/ ResetAndSelect
    \/ CopyByte
    \/ CheckTick
    \/ Return

SpecClose == InitFresh /\ [][NextClose]_vars

\* The handles of a live region against a producer that updates buffers,
\* flips the status bit, terminates and comes back with another schema.
NextLive ==
    \/ ProducerWriteGate
    \/ ProducerSignal
    \/ ProducerSetStatus
    \/ ProducerTerminate
    \/ ProducerRestartSchema
    \/ ConnectionBlocking
    \/ ConnectionIsConnected
    \/ BlockingIsConnected
    \/ ConnectionTelemetry
    \/ \E t \in {UnitsPerMs} : SampleCall(t)
    \/ TimePasses
    \/ WaitReturns
    \/ ResetAndSelect
    \/ CopyByte
    \/ CheckTick
    \/ Return

SpecLive == InitFresh /\ [][NextLive]_vars

\* Connection::session_info on regions with every session-info range and
\* every content of the view.
InitSession ==
    /\ InitState(FALSE) /\ Fresh /\ tickFirst /\ ~manualReset
    /\ sio \in 0 .. RegionLen
    /\ sil \in 0 .. RegionLen
    /\ mem \in [Addrs -> DocBytes]
    /\ ibt = "none" /\ disk = NoDisk /\ smp = NoSample /\ fps = <<>>
    /\ closes = NoCloses

NextSession ==
    \/ ConnectionSessionInfo
    \/ Return

SpecSession == InitSession /\ [][NextSession]_vars

\* An .ibt file: opened, its headers read, its samples read by index, closed.
NextDisk ==
    \/ IBTOpen
    \/ IBTHeader
    \/ IBTSubHeader
    \/ DiskSampleAt
    \/ IBTClose
    \/ Return

\* One region and one producer protocol, where neither matters.
InitOne == InitFresh /\ tickFirst /\ ~manualReset

SpecDisk == InitOne /\ [][NextDisk]_vars

\* Typed lookups on a Sample with any catalog.
InitGet ==
    /\ InitState(FALSE) /\ Fresh /\ tickFirst /\ ~manualReset
    /\ sio = 0 /\ sil = 0 /\ mem = [a \in Addrs |-> 0]
    /\ ibt = "none" /\ disk = NoDisk /\ fps = <<>> /\ closes = NoCloses
    /\ smp \in [bytes : {SampleBytes}, cat : Catalogs]

NextGet ==
    \/ SampleGet
    \/ Return

SpecGet == InitGet /\ [][NextGet]_vars

\* Every operation of the reader, on a live region with a session document
\* and on an .ibt file, against a producer that keeps writing.
InitCore ==
    /\ InitState(FALSE) /\ Fresh /\ ~manualReset
    /\ sio = 0 /\ sil = RegionLen /\ mem = [a \in Addrs |-> 58]
    /\ ibt = "none" /\ disk = NoDisk /\ smp = NoSample /\ fps = <<>>
    /\ closes = NoCloses

NextCore ==
    \/ ProducerWriteGate
    \/ ProducerSignal
    \/ ProducerSetStatus
    \/ ConnectionIsConnected
    \/ ConnectionSessionInfo
    \/ ConnectionTelemetry
    \/ ConnectionBlocking
    \/ BlockingIsConnected
    \/ \E t \in {UnitsPerMs} : SampleCall(t)
    \/ TimePasses
    \/ WaitReturns
    \/ ResetAndSelect
    \/ CopyByte
    \/ CheckTick
    \/ Return
    \/ ConnectionClose
    \/ BlockingClose
    \/ IBTOpenWhole
    \/ IBTHeader
    \/ IBTSubHeader
    \/ IBTClose

SpecCore == InitCore /\ [][NextCore]_vars

\* Fps values made by new, MIN and MAX, and their durations.
NextFps ==
    \/ FpsNew
    \/ FpsMIN
    \/ FpsMAX
    \/ FpsToDuration
    \/ Return

SpecFps == InitOne /\ [][NextFps]_vars

\* The probe against every peer behaviour.
NextSim ==
    \/ SimulationCheckStatus
    \/ Return

SpecSim == InitOne /\ [][NextSim]_vars

\* The packing of send_message on every tuple.
NextPack ==
    \/ PackWords
    \/ Return

SpecPack == InitOne /\ [][NextPack]_vars

\* Calls of pad_car_number on any car number.
NextPad == PadCarNumber \/ Return

SpecPad == InitOne /\ [][NextPad]_vars

\* Pairs of messages through to_message.
NextBroadcast == ToMessage \/ Return

SpecBroadcast == InitOne /\ [][NextBroadcast]_vars

\* Any sequence of close calls on a Connection and the Blocking made from it.
NextRelease ==
    \/ ProducerWriteGate
    \/ ProducerSignal
    \/ ConnectionBlocking
    \/ ConnectionClose
    \/ ConnectionCloseAgain
    \/ BlockingClose
    \/ BlockingCloseAgain
    \/ ConnectionTelemetry
    \/ CopyByte
    \/ CheckTick
    \/ Return

SpecRelease == InitFresh /\ [][NextRelease]_vars

\* ------------------------------------------------------------------ claims
Returned == rpc = "done" /\ out.op \in {"telemetry", "sample"} /\ out.res = "ok"

\* C1 (as claimed): every Sample returned without the possibly-stale mark holds
\* the bytes of one snapshot: all bytes were written for the same tick.
C1_NoTornRead ==
    (Returned /\ ~out.stale) => \A k \in ByteIdx : out.bytes[k] = out.bytes[1]

\* C2: when no producer write falls inside a Connection::telemetry call, the
\* Sample is the buffer whose tick is the greatest of the region's descriptors:
\* its tick is that maximum and its bytes are that buffer's bytes.
C2_SelectsGreatestTick ==
    (Returned /\ out.op = "telemetry" /\ ~interleaved) =>
        /\ out.tick = Max({tick[i] : i \in Slots})
        /\ tick[out.slot] = out.tick
        /\ \A k \in ByteIdx : out.bytes[k] = data[out.slot][k]
        /\ ~out.stale

C2_Witness ==
    /\ Returned /\ out.op = "telemetry" /\ ~interleaved
    /\ out.slot = 1 /\ tick[0] < tick[1] /\ tick[0] > 0

\* C3: a Connection::telemetry call whose chosen buffer's tick changed in every
\* attempt stops at the retry bound and returns the last copy marked
\* possibly-stale; it never returns an error, and a Sample without the mark
\* comes from an attempt in which the tick did not change.
C3_StaleAfterBound ==
    (rpc = "done" /\ out.op = "telemetry") =>
        /\ out.res = "ok"
        /\ out.attempts <= MaxAttempts
        /\ out.stale <=> (hits = MaxAttempts)
        /\ out.stale => (out.attempts = MaxAttempts)
        /\ ~out.stale => (hits = out.attempts - 1)

C3_Witness ==
    rpc = "done" /\ out.op = "telemetry" /\ out.stale /\ hits = MaxAttempts

\* C4: a call never makes more than MaxAttempts copy attempts, and once it is
\* copying it returns, whatever the producer does.
C4_Terminates ==
    /\ [](attempt <= MaxAttempts /\ Len(buf) <= BufLen)
    /\ (rpc = "copy") ~> (rpc = "done")

C4_Witness ==
    rpc = "done" /\ out.op = "telemetry" /\ out.attempts = MaxAttempts /\ ~out.stale

\* C5: a wait of the Blocking that returns WAIT_OBJECT_0 after an earlier one
\* did is released by a signal the producer raised after that earlier return,
\* never by the signal that released the earlier wait.
C5_GateReset == wake # "stale"

C5_Witness ==
    /\ rpc = "done" /\ out.op = "sample" /\ out.res = "timeout"
    /\ released /\ ~sigSince /\ manualReset

\* C6: a wait ends with one of the four values of WaitForSingleObject; the
\* event is reset and a buffer is read only after WAIT_OBJECT_0, and the call
\* returns a Sample exactly then and the matching error otherwise.
C6_WaitOutcomes ==
    /\ (op = "sample" /\ rpc \in {"signaled", "copy", "check"}) => (wcode = <<WAIT_OBJECT_0>>)
    /\ (rpc = "done" /\ out.op = "sample" /\ out.res # "convert") =>
          /\ Len(wcode) = 1
          /\ wcode[1] \in WaitCodes
          /\ (out.res = "ok") <=> (wcode[1] = WAIT_OBJECT_0)
          /\ (out.res = "timeout") <=> (wcode[1] = WAIT_TIMEOUT)
          /\ (out.res = "abandoned") <=> (wcode[1] = WAIT_ABANDONED)
          /\ (out.res = "oserror") <=> (wcode[1] = WAIT_FAILED)
          /\ (out.res # "ok") => (hdr = NoHeader /\ buf = <<>> /\ attempt = 0)

C6_Witness ==
    rpc = "done" /\ out.op = "sample" /\ out.res = "abandoned" /\ buf = <<>>

\* C7 (as claimed): a wait that returns Timeout returns after the timeout the
\* caller passed has elapsed and carries the time waited; a wait on an event
\* that is not signaled can return Timeout once that time has elapsed.
C7_TimeoutAfterElapsed ==
    /\ (rpc = "done" /\ out.op = "sample" /\ out.res = "timeout") =>
          /\ elapsed >= tmo
          /\ out.ms * UnitsPerMs = elapsed
    /\ (rpc = "armed" /\ ~event /\ ~evClosed /\ elapsed >= tmo) =>
          (WAIT_TIMEOUT \in WaitOutcomes)

\* C8 (as claimed): once a wait of the Blocking has returned Abandoned, no
\* later wait of it returns WAIT_OBJECT_0.
C8_AbandonedPermanent ==
    abandoned => (wcode # <<WAIT_OBJECT_0>>)

C10_ClosedRegion ==
    connClosed => (rpc = "idle" \/ (rpc = "done" /\ out.res = "closed_region"))

\* C11 (as claimed): is_connected on a Connection or a Blocking returns the
\* status bit the region has at the call, and the selection of telemetry() or
\* sample() starts from the buffer ticks the region has at that moment.
C11_HeaderReadPerOperation ==
    /\ (rpc = "done" /\ out.op = "is_connected") => (out.val = out.now)
    /\ (rpc = "copy" /\ attempt = 1 /\ ~interleaved) => (hdr = tick)

\* C14 (as claimed): the variable table a Sample is interpreted with is the one
\* of the region's header at the time of the Sample: after the producer came
\* back with another (variable_header_offset, variable_count) pair, no Sample
\* is returned with the pair of the old header.
C14_CatalogMatchesHeader ==
    (Returned /\ ~interleaved) => (hnvars = nvars)

\* C12 (as claimed): session_info never reads a byte outside the view, and a
\* header whose session-info range exceeds the view is answered with
\* MalformedRegion.
C12_MalformedRegion ==
    (op = "session_info" /\ rpc # "idle") =>
        /\ out.lo >= 0 /\ out.hi <= RegionLen
        /\ (sio + sil > RegionLen) => (out.res = "malformed_region")

\* C13: on a session-info range inside the view, session_info returns the
\* document or the parser's error and nothing else, and the text handed to the
\* parser has, for every byte of the range, the code point of the same number.
C13_Latin1NeverFails ==
    (op = "session_info" /\ rpc # "idle" /\ sio + sil <= RegionLen) =>
        /\ out.res \in {"ok", "invalid_document"}
        /\ Len(out.text) = sil
        /\ \A k \in 1 .. sil : out.text[k] = mem[sio + k - 1]

C13_Witness ==
    /\ rpc = "done" /\ out.op = "session_info" /\ out.res = "ok"
    /\ sil = RegionLen /\ out.text[1] = 233 /\ out.text[2] = 58 /\ out.text[3] = 255

C16_GetResult ==
    (rpc = "done" /\ out.op = "get") =>
        /\ (out.name \notin DOMAIN smp.cat) => (out.res = "NotFound")
        /\ (out.name \in DOMAIN smp.cat) =>
              LET d == smp.cat[out.name]
                  same == out.as.tag = d.tag /\ (out.as.array <=> d.count > 1)
              IN /\ ~same => (out.res = "TypeMismatch")
                 /\ same => /\ out.res = "ok"
                            /\ Len(out.val) = d.count
                            /\ \A i \in 1 .. d.count :
                                  /\ Len(out.val[i]) = Width(d.tag)
                                  /\ out.val[i][1] = d.offset + (i - 1) * Width(d.tag) + 1

C16_Get == []C16_GetResult /\ [][smp' = smp]_vars

C16_Witness ==
    /\ rpc = "done" /\ out.op = "get" /\ out.res = "ok"
    /\ out.as.array /\ out.as.tag = "Float32" /\ Len(out.val) = MaxCount
    /\ DOMAIN smp.cat = {out.name}

\* C17: a step in which the reader does anything (a call starts, proceeds or
\* returns, a handle is made or closed) leaves the region as it was: its
\* header fields, its buffers and its session document change only in steps
\* of the producer.
readerVars ==
    <<handleVars, op, rpc, out, waitVars, hdr, chosen, buf, attempt, bstatus, bnvars,
      hnvars, ibt, disk, smp, fps>>

C17_ReaderNeverWrites ==
    [][(readerVars' # readerVars) => UNCHANGED <<regionVars, status, nvars, sessVars>>]_vars

C17_Witness ==
    /\ rpc = "done" /\ out.op = "sample" /\ out.res = "ok"
    /\ connClosed /\ ibt = "closed" /\ ~status /\ ptick = GateTicks

\* C18: Fps::new(value) returns an Fps exactly when 1 <= value <= 60 and
\* panics otherwise, so the Fps held after new, MIN or MAX is within 1..60.
C18_FpsRange ==
    /\ (rpc = "done" /\ out.op = "fps_new") =>
          /\ (out.res = "ok") <=> (1 <= out.value /\ out.value <= 60)
          /\ (out.res # "ok") => (out.res = "panic")
          /\ (out.res = "ok") => (fps = <<out.value>>)
    /\ (fps # <<>>) => (1 <= fps[1] /\ fps[1] <= 60)

C18_Witness ==
    rpc = "done" /\ out.op = "fps_new" /\ out.res = "panic" /\ out.value = 0 /\ fps = <<60>>

\* C19: to_duration of an Fps v in 1..60 is floor(1000 / v) milliseconds:
\* 1000 for 1, 33 for 30, 16 for 60, within 16..1000, and no greater v has a
\* longer duration.
C19_ToDuration ==
    (rpc = "done" /\ out.op = "to_duration") =>
        /\ out.ms = 1000 \div out.value
        /\ 16 <= out.ms /\ out.ms <= 1000
        /\ (out.value = 1) => (out.ms = 1000)
        /\ (out.value = 30) => (out.ms = 33)
        /\ (out.value = 60) => (out.ms = 16)
        /\ \A w \in 1 .. 60 : (w > out.value) => (to_duration(w) <= out.ms)

C19_Witness ==
    rpc = "done" /\ out.op = "to_duration" /\ out.value = 60 /\ out.ms = 16

\* C20: check_status always returns a boolean, and it returns true exactly
\* when the connect, the write and the read succeeded and the text read has
\* the characters of "running:1" in a row somewhere.
C20_CheckStatus ==
    (rpc = "done" /\ out.op = "check_status") =>
        /\ out.res = "ok"
        /\ out.val \in BOOLEAN
        /\ out.val <=>
              /\ out.connected /\ out.written /\ out.read
              /\ \E i \in 0 .. Len(out.response) :
                    /\ i + Len(Running1) <= Len(out.response)
                    /\ \A k \in 1 .. Len(Running1) : out.response[i + k] = Running1[k]

C20_Witness ==
    /\ rpc = "done" /\ out.op = "check_status" /\ out.val
    /\ out.response[1] = "{" /\ out.response[Len(out.response)] = "}"

\* C21: the low word of wparam is the category and its next word is word1,
\* the low word of lparam is word2 and its next word is word3, so the tuple is
\* read back from (wparam, lparam), whatever the width of the two.
C21_PackLossless ==
    (rpc = "done" /\ out.op = "pack") =>
        /\ out.wparam >= 0
        /\ out.wparam % 2 ^ WordBits = out.cat
        /\ (out.wparam \div 2 ^ WordBits) % 2 ^ WordBits = out.var1
        /\ out.lparam % 2 ^ WordBits = out.var2
        /\ (out.lparam \div 2 ^ WordBits) % 2 ^ WordBits = out.var3

C21_Witness ==
    /\ rpc = "done" /\ out.op = "pack" /\ out.cat = 13 /\ out.bits = 2 * WordBits
    /\ out.var1 = 2 ^ WordBits - 1 /\ out.var2 = 1 /\ out.var3 = 2 ^ WordBits - 1
    /\ out.lparam < 0

\* C22 (as claimed): when the producer has signaled since the last wait of the
\* Blocking was released, at any point after that release, the next wait does
\* not time out.
C22_NoSignalLost ==
    (rpc = "done" /\ out.op = "sample" /\ out.res = "timeout" /\ released) => ~sigSince

\* C23 (as claimed): over any sequence of Connection::close and
\* Blocking::close calls, CloseHandle is issued at most once on the region's
\* handle value and at most once on the event handle.
C23_ReleasedOnce ==
    closes.region <= 1 /\ closes.event <= 1

\* C24 (as claimed): a sample(timeout) whose whole milliseconds do not fit in
\* 32 bits returns the conversion error without waiting, resetting or reading;
\* for every timeout that fits, the wait lasts no longer than that timeout.
C24_WaitBoundedByTimeout ==
    /\ (rpc = "done" /\ out.op = "sample" /\ out.res = "convert")
          => (AsMillis(tmo) > U32Max /\ wcode = <<>> /\ elapsed = 0 /\ buf = <<>>)
    /\ (rpc = "armed" /\ AsMillis(tmo) <= U32Max) => elapsed <= tmo

\* C25 (as claimed): to_message is injective: two messages that differ in
\* variant or in any argument encode to different tuples.
C25_ToMessageInjective ==
    (rpc = "done" /\ out.op = "to_message") =>
        (out.m1 # out.m2 => out.t1 # out.t2)

\* C26: on a car number of one to three digits pad_car_number returns its
\* value when it has no leading zero or is "0", and its value plus 1000 times
\* its length otherwise; no other car number of that size has the same code.
C26_PadCarNumber ==
    (rpc = "done" /\ out.op = "pad_car_number") =>
        /\ out.code = IF Head(out.s) # 0 \/ out.s = <<0>>
                        THEN parse(out.s)
                        ELSE parse(out.s) + 1000 * Len(out.s)
        /\ \A t \in CarNumbers : pad_car_number(t) = out.code => t = out.s

C26_Witness ==
    rpc = "done" /\ out.op = "pad_car_number" /\ out.s = <<0, 0>> /\ out.code = 2000

====
